---- MODULE Spec2Model ----
(***************************************************************************)
(* Model of the WhisperDoc terminal client's streaming engine              *)
(* (terminal_client/whisper_shell): the handshake state machine, the       *)
(* pre-auth audio buffer, the transport service and the recording          *)
(* controller, as they run on one asyncio event loop.                      *)
(*                                                                         *)
(* One action is one run of a task between two suspension points (await    *)
(* that yields to the loop); the loop interleaves such runs.               *)
(***************************************************************************)
EXTENDS Integers, Sequences, FiniteSets, TLC

(***************************************************************************)
(* Bounds of the model.                                                    *)
(***************************************************************************)
MaxListeners == 2   \* listeners registered on the state machine
MaxPending == 3     \* listener calls not yet run, in the state machine's own driver
MaxSock == 2        \* WebSockets opened in one run
MaxChunks == 3      \* PCM chunks the audio callback produces in one run
MaxToggles == 3     \* hotkey edges in one run
MAX_CHUNKS == 2     \* AudioBufferManager.MAX_CHUNKS (20000 in the source), scaled down
MaxTokens == 4      \* pieces that make up a text given to the sanitizer

(***************************************************************************)
(* logic/handshake.py                                                      *)
(***************************************************************************)
HandshakeState == {"LOCKED", "AUTHENTICATING", "AUTHENTICATED", "FAILED", "BANNED"}

VARIABLES
    client,         \* DictationClient: "configured" (before the services are
                    \*   constructed) | "constructed" | "running"
    transport,      \* TransportService: [ws, receive_task, idle_timer, uri,
                    \*   hostname, final_uri, message_listeners]
                    \*   ws: the socket in _ws, 0 for None
                    \*   receive_task: the receive task in _receive_task (named by
                    \*                 the socket it was spawned for), 0 for None
                    \*   idle_timer: TRUE when an idle _timeout task is pending
                    \*   uri: cfg.WS_URI as configured, a sequence of pieces
                    \*   hostname: the host the API key is looked up for
                    \*   final_uri: the URI that websockets.connect is given
                    \*   message_listeners: the callbacks in _message_listeners
    net,            \* the sockets and the transport's tasks:
                    \*   sock: the state of each socket opened so far, as the server
                    \*         sees it: "open" (no hello yet), "hello", "authed",
                    \*         "rejected", "closed_c" (closed by the client),
                    \*         "closed_s" (closed by the server)
                    \*   recv: the receive tasks that are alive (by socket)
                    \*   opening: connect() calls suspended in websockets.connect
                    \*   closing: disconnect() calls suspended in ws.close
    buffer_manager, \* AudioBufferManager: [buffer, is_buffering]
    ctl,            \* RecordingController: [is_recording, audio_queue, ncap, ntoggle]
                    \*   ncap: chunks captured so far; ntoggle: hotkey edges so far
    pipes,          \* the _process_audio_pipe tasks: [pc, chunk, to_flush]
    wire,           \* every frame written to a socket, in order: [k, s, c, hs, path]
                    \*   k: "hello" | "eos" | "bin"; s: the socket; c: the chunk
                    \*   hs: the handshake state at the write
                    \*   path: "flush" (written by flush), "direct" (a chunk sent as
                    \*         it was popped), "tail" (the popped chunk, sent after
                    \*         the flush), "ctl" (a text frame)
    handshake,      \* HandshakeStateMachine: [state, timeout_task, listeners, notified]
                    \*   timeout_task: TRUE when a _timeout_coro task is pending
                    \*   notified: listener calls made by transition_to, oldest first;
                    \*             for the async listener these are the tasks that
                    \*             asyncio.create_task scheduled and that did not run yet
    last,           \* the most recent call made on the state machine by its driver:
                    \*   [op, arg, before], before being the machine before the call
    history,        \* what the run has been through: [banned, failed, answered,
                    \*   authed, flushes]
                    \*   banned: the handshake state has been BANNED
                    \*   failed: the chunks that were in the audio buffer at a
                    \*           moment the handshake state became FAILED
                    \*   answered: the server has sent a frame or a close
                    \*   authed: the sockets on which an "authenticated" event
                    \*           has been received, while they are not closed
                    \*   flushes: for each flush call the buffer's driver made,
                    \*            by slot: [given, passed, cleared, ended]
                    \*            given: the buffer when flush was called
                    \*            passed: the chunks send_callback was called
                    \*                    with so far, in order
                    \*            cleared: clear() ran since the call
                    \*            ended: "running" | "returned" | "raised"
    san             \* Sanitizer.sanitize at work, and the desktop it feeds:
                    \*   [pc, text, out, again, clipboard, pastes]
                    \*   text: the argument of the call, a sequence of characters
                    \*   out: what the call returned
                    \*   again: what sanitize returned when called on out
                    \*   clipboard: the values pyperclip.copy was given, in order
                    \*   pastes: the Ctrl+V strokes the keyboard controller made

vars == <<client, transport, net, buffer_manager, ctl, pipes, wire, handshake, last,
          history, san>>

\* HandshakeStateMachine._is_valid_transition, mutated: the LOCKED row also
\* lets AUTHENTICATED through.
is_valid_transition_LockedToAuthenticated(from_state, to_state) ==
    IF to_state = "BANNED" THEN TRUE
    ELSE IF from_state = "LOCKED"
        THEN to_state \in {"AUTHENTICATING", "FAILED", "AUTHENTICATED"}
    ELSE IF from_state = "AUTHENTICATING" THEN to_state \in {"AUTHENTICATED", "FAILED"}
    ELSE IF from_state = "AUTHENTICATED" THEN to_state = "LOCKED"
    ELSE IF from_state = "FAILED" THEN to_state = "LOCKED"
    ELSE IF from_state = "BANNED" THEN to_state = "LOCKED"
    ELSE FALSE

\* HandshakeStateMachine._is_valid_transition
is_valid_transition(from_state, to_state) ==
    IF to_state = "BANNED" THEN TRUE
    ELSE IF from_state = "LOCKED" THEN to_state \in {"AUTHENTICATING", "FAILED"}
    ELSE IF from_state = "AUTHENTICATING" THEN to_state \in {"AUTHENTICATED", "FAILED"}
    ELSE IF from_state = "AUTHENTICATED" THEN to_state = "LOCKED"
    ELSE IF from_state = "FAILED" THEN to_state = "LOCKED"
    ELSE IF from_state = "BANNED" THEN to_state = "LOCKED"
    ELSE FALSE

\* HandshakeStateMachine._cancel_timeout
cancel_timeout(h) == [h EXCEPT !.timeout_task = FALSE]

\* HandshakeStateMachine._start_timeout: cancel, then create the task
start_timeout(h) == [cancel_timeout(h) EXCEPT !.timeout_task = TRUE]

\* the listener loop, mutated: the first registered listener is skipped
NotifyAll_SkipFirst(h, new_state) ==
    [h EXCEPT !.notified =
        @ \o [i \in 1..(Len(h.listeners) - 1) |-> <<h.listeners[i + 1], new_state>>]]

\* the "for listener in self._listeners" loop of transition_to
NotifyAll(h, new_state) ==
    [h EXCEPT !.notified =
        @ \o [i \in 1..Len(h.listeners) |-> <<h.listeners[i], new_state>>]]

\* the timeout handling at the end of transition_to
HandleTimeout(h, new_state) ==
    IF new_state = "AUTHENTICATING" THEN start_timeout(h) ELSE cancel_timeout(h)

\* HandshakeStateMachine.transition_to
transition_to(h, new_state) ==
    IF h.state = new_state THEN h
    ELSE IF ~is_valid_transition(h.state, new_state) THEN h
    ELSE HandleTimeout(NotifyAll([h EXCEPT !.state = new_state], new_state), new_state)

\* HandshakeStateMachine.reset
reset(h) == transition_to(cancel_timeout(h), "LOCKED")

\* HandshakeStateMachine.can_send_audio, mutated: no check of the state
can_send_audio_Always(h) == TRUE

\* HandshakeStateMachine.can_send_audio
can_send_audio(h) == h.state = "AUTHENTICATED"

\* the body of _timeout_coro after its sleep; the task is finished afterwards
timeout_coro(h) ==
    IF h.state = "AUTHENTICATING"
        THEN [transition_to(h, "FAILED") EXCEPT !.timeout_task = FALSE]
        ELSE [h EXCEPT !.timeout_task = FALSE]

\* HandshakeStateMachine.add_listener
add_listener(h, callback) == [h EXCEPT !.listeners = Append(@, callback)]

(***************************************************************************)
(* logic/audio_buffer.py.  b is [buffer, is_buffering].                    *)
(***************************************************************************)
NoChunk == <<0, 0>>

\* AudioBufferManager.is_empty
is_empty(b) == Len(b.buffer) = 0

\* AudioBufferManager.count
count(b) == Len(b.buffer)

\* AudioBufferManager.add, mutated: at the cap the newest buffered chunk is
\* dropped, not the oldest
add_EvictNewest(b, chunk) ==
    IF b.is_buffering
        THEN IF Len(b.buffer) >= MAX_CHUNKS
                THEN [b EXCEPT !.buffer = Append(SubSeq(@, 1, Len(@) - 1), chunk)]
                ELSE [b EXCEPT !.buffer = Append(@, chunk)]
        ELSE b

\* AudioBufferManager.add, mutated: the oldest chunk is not dropped at the cap
add_NoEvict(b, chunk) ==
    IF b.is_buffering THEN [b EXCEPT !.buffer = Append(@, chunk)] ELSE b

\* AudioBufferManager.add
add(b, chunk) ==
    IF b.is_buffering
        THEN IF Len(b.buffer) >= MAX_CHUNKS
                THEN [b EXCEPT !.buffer = Append(Tail(@), chunk)]
                ELSE [b EXCEPT !.buffer = Append(@, chunk)]
        ELSE b

\* AudioBufferManager.clear, mutated: the mode is left as it is
clear_KeepMode(b) == [b EXCEPT !.buffer = <<>>]

\* AudioBufferManager.clear
clear(b) == [buffer |-> <<>>, is_buffering |-> TRUE]

\* AudioBufferManager.flush up to its first send, mutated: the buffer is
\* copied but not cleared
flush_begin_KeepBuffer(b) == [b EXCEPT !.is_buffering = FALSE]

\* AudioBufferManager.flush up to its first send, mutated: the mode is not
\* switched
flush_begin_StillBuffering(b) == [buffer |-> <<>>, is_buffering |-> TRUE]

\* AudioBufferManager.flush up to its first send: the early return on an empty
\* buffer, else the copy into to_flush, the clear and the switch of the mode
flush_begin(b) == [buffer |-> <<>>, is_buffering |-> FALSE]

(***************************************************************************)
(* services/transport_service.py.  The operators work on a bundle          *)
(* B = [h, t, n, w, exc, d, armed]: the handshake, the transport's fields, *)
(* the sockets and tasks, the wire, whether the run raised, the calls the  *)
(* run made to message listeners, and whether it re-armed the idle timer.  *)
(***************************************************************************)
Bundle == [h |-> handshake, t |-> transport, n |-> net, w |-> wire, exc |-> FALSE,
           d |-> <<>>, armed |-> FALSE]

\* the step from h1 to h2 took the state to FAILED (and maybe on to BANNED):
\* the controller's listener was told so
BecameFailed(h1, h2) ==
    \E k \in (Len(h1.notified) + 1)..Len(h2.notified) : h2.notified[k] = <<1, "FAILED">>

Record(h2, n2) ==
    [history EXCEPT
        !.banned = @ \/ h2.state = "BANNED",
        !.answered = @ \/ \E s \in 1..Len(n2.sock) :
                              n2.sock[s] \in {"authed", "rejected", "closed_s"},
        !.authed = {s \in 1..Len(n2.sock) :
                       \/ n2.sock[s] = "authed"
                       \/ s \in @ /\ n2.sock[s] = "rejected"},
        !.failed = IF BecameFailed(handshake, h2)
                      THEN @ \cup {buffer_manager.buffer[k] :
                                      k \in 1..Len(buffer_manager.buffer)}
                      ELSE @]

SetBundle(B) ==
    /\ handshake' = B.h
    /\ history' = Record(B.h, B.n)
    /\ transport' = B.t
    /\ net' = B.n
    /\ wire' = B.w

\* a socket on which a send succeeds; on a closed one ws.send raises
Writable(B, s) == B.n.sock[s] \in {"open", "hello", "authed", "rejected"}

Frame(B, kind, chunk, path) ==
    [k |-> kind, s |-> B.t.ws, c |-> chunk, hs |-> B.h.state, path |-> path]

\* TransportService._reset_idle_timer: cancel the pending task, create a new one
reset_idle_timer(B) == [B EXCEPT !.t.idle_timer = TRUE, !.armed = TRUE]

\* self._ws.send(frame): the frame is written at the call, or the call raises
\* ConnectionClosed
ws_send(B, kind, chunk, path) ==
    IF Writable(B, B.t.ws)
        THEN [B EXCEPT !.w = Append(@, Frame(B, kind, chunk, path)),
                       !.n.sock[B.t.ws] =
                           IF kind = "hello" /\ @ = "open" THEN "hello" ELSE @]
        ELSE [B EXCEPT !.exc = TRUE]

\* TransportService._send_json
send_json(B, kind, chunk) ==
    IF B.t.ws # 0 THEN ws_send(reset_idle_timer(B), kind, chunk, "ctl") ELSE B

\* TransportService.send_audio
send_audio(B, chunk, path) ==
    IF can_send_audio(B.h) /\ B.t.ws # 0
        THEN ws_send(reset_idle_timer(B), "bin", chunk, path)
        ELSE B

\* TransportService.disconnect up to "await self._ws.close(...)".  mode says
\* what becomes of the caller there:
\*   "suspend"  the caller waits for the close and goes on afterwards
\*   "abort"    the caller is the idle-timer or receive task that disconnect
\*              has just cancelled: close sends its close frame, then
\*              CancelledError is raised where it waits, and
\*              "self._ws = None" is never reached
\*   "complete" the close returns without suspending (the socket is closed
\*              already), so "self._ws = None" runs at once
disconnect(B, mode) ==
    LET B1 == [B EXCEPT !.h = reset(@),
                        !.t.idle_timer = FALSE,
                        !.t.receive_task = 0,
                        !.n.recv = @ \ {B.t.receive_task}]
        closed == [B1 EXCEPT !.n.sock[B1.t.ws] =
                                IF @ = "closed_s" THEN @ ELSE "closed_c"]
    IN  IF B1.t.ws = 0 THEN B1
        ELSE IF mode = "abort" THEN closed
        ELSE IF mode = "complete" THEN [B1 EXCEPT !.t.ws = 0]
        ELSE [closed EXCEPT !.n.closing = @ + 1]

\* TransportService.connect up to "await websockets.connect(...)"
connect_begin(B) ==
    IF B.t.ws # 0 THEN B
    ELSE [B EXCEPT !.h = reset(@), !.n.opening = @ + 1]

\* TransportService.ensure_connected
ensure_connected(B) ==
    IF B.h.state = "AUTHENTICATED" THEN B ELSE connect_begin(B)

\* the first index from i on whose character is not in set, Len(s) + 1 if none
RECURSIVE SkipWhile(_, _, _)
SkipWhile(s, i, set) ==
    IF i > Len(s) \/ s[i] \notin set THEN i ELSE SkipWhile(s, i + 1, set)

(***************************************************************************)
(* TransportService._prepare_uri and urllib.parse.urlparse.  A URI is a    *)
(* sequence of pieces: a delimiter, or a word that holds no delimiter.     *)
(***************************************************************************)
\* words that begin with a letter and hold only letters, digits, "+", "-", "."
AlphaWords == {"ws", "WS", "wss", "http", "https", "HTTPS",
               "localhost", "LOCALHOST", "evil.com", "user", "x", "q", "f"}

\* words that begin with a digit
DigitWords == {"127.0.0.1", "0.0.0.0", "9989"}

UriDelims == {":", "//", "/", "?", "#", "@"}

UriPieces == AlphaWords \cup DigitWords \cup UriDelims

\* str.lower() on a word
LowerWord(w) ==
    CASE w = "WS" -> "ws"
      [] w = "HTTPS" -> "https"
      [] w = "LOCALHOST" -> "localhost"
      [] OTHER -> w

lower(s) == [k \in 1..Len(s) |-> LowerWord(s[k])]

\* the first index from i on whose piece is in set, Len(s) + 1 if none
Find(s, i, set) == SkipWhile(s, i, UriPieces \ set)

\* the index of the last "@" of s up to i, 0 if none (str.rpartition('@'))
RECURSIVE LastAt(_, _)
LastAt(s, i) == IF i = 0 \/ s[i] = "@" THEN i ELSE LastAt(s, i - 1)

\* urllib.parse.urlparse: the scheme is what stands before the first ":" when
\* it begins with a letter and holds scheme characters only; a network
\* location is read only behind "//", up to the first "/", "?" or "#"; the
\* fragment is split off at the first "#", then the query at the first "?"
urlparse(url) ==
    LET i == Find(url, 1, {":"})
        has_scheme == /\ i > 1 /\ i <= Len(url)
                      /\ url[1] \in AlphaWords
                      /\ \A k \in 1..(i - 1) : url[k] \in AlphaWords \cup DigitWords
        rest == IF has_scheme THEN SubSeq(url, i + 1, Len(url)) ELSE url
        has_netloc == rest # <<>> /\ rest[1] = "//"
        j == Find(rest, 2, {"/", "//", "?", "#"})
        rest2 == IF has_netloc THEN SubSeq(rest, j, Len(rest)) ELSE rest
        f == Find(rest2, 1, {"#"})
        rest3 == SubSeq(rest2, 1, f - 1)
        q == Find(rest3, 1, {"?"})
    IN  [scheme |-> IF has_scheme THEN lower(SubSeq(url, 1, i - 1)) ELSE <<>>,
         netloc |-> IF has_netloc THEN SubSeq(rest, 2, j - 1) ELSE <<>>,
         path |-> SubSeq(rest3, 1, q - 1),
         query |-> SubSeq(rest3, q + 1, Len(rest3)),
         fragment |-> SubSeq(rest2, f + 1, Len(rest2))]

\* the hostname attribute of a parse result: what follows the last "@" of
\* the network location, up to the first ":", in lower case; <<>> for None
hostname_of(parsed) ==
    LET hostinfo == SubSeq(parsed.netloc, LastAt(parsed.netloc, Len(parsed.netloc)) + 1,
                           Len(parsed.netloc))
    IN  lower(SubSeq(hostinfo, 1, Find(hostinfo, 1, {":"}) - 1))

LocalHosts == {<<"localhost">>, <<"127.0.0.1">>, <<"0.0.0.0">>}

\* TransportService._prepare_uri
prepare_uri(uri) ==
    LET parsed == urlparse(uri)
        hostname == IF hostname_of(parsed) # <<>> THEN hostname_of(parsed)
                    ELSE <<"localhost">>
        scheme0 == IF parsed.scheme # <<>> THEN lower(parsed.scheme) ELSE <<"ws">>
        scheme1 == IF scheme0 = <<"https">> THEN <<"wss">>
                   ELSE IF scheme0 = <<"http">> THEN <<"ws">>
                   ELSE scheme0
        scheme == IF hostname \notin LocalHosts /\ scheme1 = <<"ws">>
                     THEN <<"wss">> ELSE scheme1
        path == IF parsed.path # <<>> THEN parsed.path ELSE <<"/", "ws">>
        final == scheme \o <<":", "//">> \o parsed.netloc \o path
    IN  IF parsed.query # <<>> THEN final \o <<"?">> \o parsed.query ELSE final

\* TransportService.__init__
NewTransport(uri) ==
    [ws |-> 0, receive_task |-> 0, idle_timer |-> FALSE,
     uri |-> uri,
     hostname |-> IF hostname_of(urlparse(uri)) # <<>> THEN hostname_of(urlparse(uri))
                  ELSE <<"localhost">>,
     final_uri |-> prepare_uri(uri),
     message_listeners |-> <<>>]

\* TransportService.add_message_listener
add_message_listener(t, callback) == [t EXCEPT !.message_listeners = Append(@, callback)]

\* the default of cfg.WS_URI: ws://localhost:9989/ws
DefaultUri == <<"ws", ":", "//", "localhost", ":", "9989", "/", "ws">>

(***************************************************************************)
(* The state after DictationClient.__init__: the controller has registered *)
(* its handshake listener (listener 1); nothing is connected.              *)
(***************************************************************************)
NPipes == (MaxToggles + 1) \div 2

\* no flush call was made in the slot
NoFlush == [given |-> <<>>, passed |-> <<>>, cleared |-> FALSE, ended |-> "returned"]

IdlePipe == [pc |-> "done", chunk |-> NoChunk, to_flush |-> <<>>]

Init ==
    /\ client = "constructed"
    /\ transport = add_message_listener(NewTransport(DefaultUri), 1)
    /\ net = [sock |-> <<>>, recv |-> {}, opening |-> 0, closing |-> 0]
    /\ buffer_manager = [buffer |-> <<>>, is_buffering |-> TRUE]
    /\ ctl = [is_recording |-> FALSE, audio_queue |-> <<>>, ncap |-> 0, ntoggle |-> 0]
    /\ pipes = [p \in 1..NPipes |-> IdlePipe]
    /\ wire = <<>>
    /\ handshake = [state |-> "LOCKED", timeout_task |-> FALSE,
                    listeners |-> <<1>>, notified |-> <<>>]
    /\ last = [op |-> "init", arg |-> "LOCKED",
               before |-> [state |-> "LOCKED", timeout_task |-> FALSE,
                           listeners |-> <<1>>, notified |-> <<>>]]
    /\ history = [banned |-> FALSE, failed |-> {}, answered |-> FALSE,
                  authed |-> {}, flushes |-> [p \in 1..NPipes |-> NoFlush]]
    /\ san = [pc |-> "idle", text |-> <<>>, out |-> <<>>, again |-> <<>>,
              clipboard |-> <<>>, pastes |-> 0]

Running == client = "running"

\* A task that asyncio.create_task made runs before the loop goes back to
\* wait for timers, the network or the other threads: while a listener task
\* is waiting to run, only tasks that are ready already (the pipe tasks) can
\* run before it.
NoListenerWaiting == handshake.notified = <<>>

Ready == Running /\ NoListenerWaiting

(***************************************************************************)
(* client.py: DictationClient.start schedules the warm-up connect() as the *)
(* first thing the loop runs.                                              *)
(***************************************************************************)
WarmUp ==
    /\ client = "constructed"
    /\ client' = "running"
    /\ SetBundle(connect_begin(Bundle))
    /\ UNCHANGED <<buffer_manager, ctl, pipes, last, san>>

(***************************************************************************)
(* TransportService.connect after websockets.connect returned: the socket  *)
(* is stored, the receive task is created and the hello is sent; without   *)
(* an API key the except branch disconnects.                               *)
(***************************************************************************)
\* connect from "self._ws = await websockets.connect(...)" to its return,
\* mutated: the hello is left out when the handshake is AUTHENTICATED already
connect_opened_NoHello(B, api_key) ==
    LET s == Len(B.n.sock) + 1
        B1 == [B EXCEPT !.t.ws = s,
                        !.t.receive_task = s,
                        !.n.sock = Append(@, "open"),
                        !.n.recv = @ \cup {s},
                        !.n.opening = @ - 1]
    IN  IF api_key
            THEN IF B.h.state = "AUTHENTICATED" THEN B1
                 ELSE [send_json(B1, "hello", NoChunk) EXCEPT
                          !.h = transition_to(@, "AUTHENTICATING")]
            ELSE disconnect(B1, "suspend")

\* connect from "self._ws = await websockets.connect(...)" to its return.
\* The hello is the first frame of a new socket, whose write buffer is
\* empty: its send does not wait.
connect_opened(B, api_key) ==
    LET s == Len(B.n.sock) + 1
        B1 == [B EXCEPT !.t.ws = s,
                        !.t.receive_task = s,
                        !.n.sock = Append(@, "open"),
                        !.n.recv = @ \cup {s},
                        !.n.opening = @ - 1]
    IN  IF api_key
            THEN [send_json(B1, "hello", NoChunk) EXCEPT
                     !.h = transition_to(@, "AUTHENTICATING")]
            ELSE disconnect(B1, "suspend")

\* api_key: whether sec_cfg.get_api_key returns a key
ConnectOpenedWith(api_key) ==
    /\ Ready
    /\ net.opening > 0
    /\ Len(net.sock) < MaxSock
    /\ SetBundle(connect_opened(Bundle, api_key))
    /\ UNCHANGED <<client, buffer_manager, ctl, pipes, last, san>>

ConnectOpened == \E api_key \in BOOLEAN : ConnectOpenedWith(api_key)

\* websockets.connect raises: the except branch of connect disconnects
ConnectFailed ==
    /\ Ready
    /\ net.opening > 0
    /\ SetBundle(disconnect([Bundle EXCEPT !.n.opening = @ - 1], "suspend"))
    /\ UNCHANGED <<client, buffer_manager, ctl, pipes, last, san>>

\* TransportService.disconnect after "await self._ws.close(...)":
\* "self._ws = None"
DisconnectClosed ==
    /\ Ready
    /\ net.closing > 0
    /\ transport' = [transport EXCEPT !.ws = 0]
    /\ net' = [net EXCEPT !.closing = @ - 1]
    /\ UNCHANGED <<client, buffer_manager, ctl, pipes, wire, handshake, last, history, san>>

(***************************************************************************)
(* TransportService._listen_loop / _handle_raw_message: one action per     *)
(* frame the receive task of socket s reads.  The server answers a hello   *)
(* with "authenticated" or with an error, and may send an error later.     *)
(***************************************************************************)
ErrorCodes == {401, 403, 1008, 500}

\* _handle_raw_message for {"event": "authenticated"}
handle_authenticated(B) ==
    [reset_idle_timer(B) EXCEPT !.h = transition_to(@, "AUTHENTICATED")]

\* "for cb in self._message_listeners: await cb(msg)"
NotifyMessageListeners(B, msg) ==
    [B EXCEPT !.d = @ \o [i \in 1..Len(B.t.message_listeners) |->
                              <<B.t.message_listeners[i], msg>>]]

\* _handle_raw_message for an error frame, mutated: code 1008 stops at FAILED
handle_error_FailedOnly(B, code) ==
    LET B1 == reset_idle_timer(B)
        h1 == IF code \in {401, 403, 1008} THEN transition_to(B1.h, "FAILED") ELSE B1.h
    IN  NotifyMessageListeners([B1 EXCEPT !.h = h1], <<"error", code>>)

\* _handle_raw_message for {"event": "error", "code": code}
handle_error(B, code) ==
    LET B1 == reset_idle_timer(B)
        h1 == IF code \in {401, 403, 1008} THEN transition_to(B1.h, "FAILED") ELSE B1.h
        h2 == IF code \in {401, 403, 1008} /\ code = 1008
                 THEN transition_to(h1, "BANNED") ELSE h1
    IN  NotifyMessageListeners([B1 EXCEPT !.h = h2], <<"error", code>>)

\* _handle_raw_message for {"event": "hello"}
handle_hello(B) == reset_idle_timer(B)

\* _handle_raw_message for any other event, such as "status"
handle_other(B, event) == NotifyMessageListeners(reset_idle_timer(B), <<event, 0>>)

\* _handle_raw_message for a frame that is not text
handle_binary(B) == B

\* TransportService._handle_raw_message; a frame is <<event, code>>
handle_raw_message(B, frame) ==
    CASE frame[1] = "binary" -> handle_binary(B)
      [] frame[1] = "hello" -> handle_hello(B)
      [] frame[1] = "authenticated" -> handle_authenticated(B)
      [] frame[1] = "error" -> handle_error(B, frame[2])
      [] OTHER -> handle_other(B, frame[1])

RecvAuthenticated(s) ==
    /\ Ready
    /\ s \in net.recv
    /\ net.sock[s] = "hello"
    /\ SetBundle(handle_authenticated([Bundle EXCEPT !.n.sock[s] = "authed"]))
    /\ UNCHANGED <<client, buffer_manager, ctl, pipes, last, san>>

RecvErrorCode(s, code) ==
    /\ Ready
    /\ s \in net.recv
    /\ net.sock[s] \in {"hello", "authed"}
    /\ SetBundle(handle_error([Bundle EXCEPT !.n.sock[s] = "rejected"], code))
    /\ UNCHANGED <<client, buffer_manager, ctl, pipes, last, san>>

RecvError(s) == \E code \in ErrorCodes : RecvErrorCode(s, code)

\* _handle_raw_message for a "status" frame
RecvStatus(s) ==
    /\ Ready
    /\ s \in net.recv
    /\ net.sock[s] \in {"hello", "authed"}
    /\ LET B == handle_other(Bundle, "status")
       IN  /\ handshake' = B.h
           /\ transport' = B.t
           /\ net' = B.n
           /\ wire' = B.w
           /\ history' = [Record(B.h, B.n) EXCEPT !.answered = TRUE]
    /\ UNCHANGED <<client, buffer_manager, ctl, pipes, last, san>>

\* the server closes socket s
ServerClose(s) ==
    /\ Ready
    /\ s \in 1..Len(net.sock)
    /\ net.sock[s] \in {"open", "hello", "authed", "rejected"}
    /\ net' = [net EXCEPT !.sock[s] = "closed_s"]
    /\ history' = [history EXCEPT !.answered = TRUE, !.authed = @ \ {s}]
    /\ UNCHANGED <<client, transport, buffer_manager, ctl, pipes, wire, handshake, last, san>>

CloseCodes == {1000, 1008, 1006}

\* _listen_loop when the socket is closed.  A close with code 1000 ends the
\* "async for" silently; any other raises ConnectionClosed, and the except
\* branch disconnects.  When self._receive_task is this task, disconnect
\* cancels the task it runs in.
listen_loop_closed(B, s, code, mode) ==
    LET B1 == [B EXCEPT !.n.recv = @ \ {s}]
    IN  IF code = 1000 THEN B1
        ELSE IF B.t.receive_task = s THEN disconnect(B1, mode)
        ELSE disconnect(B1, "suspend")

RecvClosedCode(s, code, mode) ==
    /\ Ready
    /\ s \in net.recv
    /\ net.sock[s] \in {"closed_s", "closed_c"}
    /\ code \in (IF net.sock[s] = "closed_c" THEN {1000} ELSE CloseCodes)
    /\ SetBundle(listen_loop_closed(Bundle, s, code, mode))
    /\ UNCHANGED <<client, buffer_manager, ctl, pipes, last, san>>

RecvClosed(s) ==
    \E code \in CloseCodes, mode \in {"abort", "complete"} : RecvClosedCode(s, code, mode)

(***************************************************************************)
(* The idle timer's _timeout task, after its sleep.  disconnect cancels    *)
(* self._idle_timer, which is the task it runs in.                         *)
(***************************************************************************)
idle_timeout(B, mode) ==
    IF B.t.ws # 0 THEN disconnect(B, mode) ELSE [B EXCEPT !.t.idle_timer = FALSE]

\* IDLE_TIMEOUT after the last send or receive: no connect or disconnect is
\* under way and no flush is between two sends
IdleTimeout ==
    /\ Ready
    /\ transport.idle_timer
    /\ net.opening = 0 /\ net.closing = 0
    /\ \A p \in 1..NPipes : pipes[p].pc # "flush"
    /\ \E mode \in {"abort", "complete"} :
          /\ mode = "complete" => (transport.ws # 0 /\ ~Writable(Bundle, transport.ws))
          /\ SetBundle(idle_timeout(Bundle, mode))
    /\ UNCHANGED <<client, buffer_manager, ctl, pipes, last, san>>

(***************************************************************************)
(* The handshake's _timeout_coro task, after its sleep.                    *)
(***************************************************************************)
HandshakeTimeout ==
    /\ Ready
    /\ handshake.timeout_task
    /\ handshake' = timeout_coro(handshake)
    /\ history' = Record(timeout_coro(handshake), net)
    /\ UNCHANGED <<client, transport, net, buffer_manager, ctl, pipes, wire, last, san>>

(***************************************************************************)
(* controllers/recording_controller.py                                     *)
(***************************************************************************)
Session == (ctl.ntoggle + 1) \div 2

\* the lowest free slot for a new pipe task
FreePipe == CHOOSE p \in 1..NPipes :
                /\ pipes[p].pc = "done"
                /\ \A q \in 1..NPipes : pipes[q].pc = "done" => p <= q

\* RecordingController._start_recording_session, with the first run of the
\* ensure_connected task it creates; the pipe task it creates waits in its
\* first queue.get
StartRecording ==
    /\ Ready
    /\ ~ctl.is_recording
    /\ ctl.ntoggle < MaxToggles
    /\ ctl' = [ctl EXCEPT !.is_recording = TRUE, !.ntoggle = @ + 1]
    /\ buffer_manager' = clear(buffer_manager)
    /\ SetBundle(ensure_connected(Bundle))
    /\ pipes' = [pipes EXCEPT ![FreePipe] = [IdlePipe EXCEPT !.pc = "get"]]
    /\ UNCHANGED <<client, last, san>>

\* RecordingController._stop_recording_session after the flags are set
stop_recording_session(B, session) ==
    IF B.h.state = "AUTHENTICATED" THEN send_json(B, "eos", <<session, 0>>) ELSE B

StopRecording ==
    /\ Ready
    /\ ctl.is_recording
    /\ ctl.ntoggle < MaxToggles
    /\ ctl' = [ctl EXCEPT !.is_recording = FALSE, !.ntoggle = @ + 1]
    /\ SetBundle(stop_recording_session(Bundle, Session))
    /\ UNCHANGED <<client, buffer_manager, pipes, last, san>>

\* services/audio_service.py: AudioService.audio_callback puts one chunk on
\* the queue while is_recording is set.  A chunk is <<session, number>>.
audio_callback(limit) ==
    /\ Ready
    /\ ctl.is_recording
    /\ ctl.ncap < limit
    /\ ctl' = [ctl EXCEPT !.ncap = @ + 1,
                          !.audio_queue = Append(@, <<Session, ctl.ncap + 1>>)]
    /\ UNCHANGED <<client, transport, net, buffer_manager, pipes, wire, handshake, last, history, san>>

AudioCallback == audio_callback(MaxChunks)

\* the pipe task after a send: it is suspended in the flush (holding the
\* chunk it popped and the rest of to_flush), or waits in queue.get again, or
\* has ended on the exception the send raised
AfterSend(p, B, pc_next, chunk, to_flush) ==
    /\ SetBundle(B)
    /\ pipes' = [pipes EXCEPT ![p] =
                    IF B.exc THEN IdlePipe
                    ELSE IF pc_next = "get" THEN [IdlePipe EXCEPT !.pc = "get"]
                    ELSE [pc |-> pc_next, chunk |-> chunk, to_flush |-> to_flush]]

\* _process_audio_pipe: queue.get returns a chunk.  AUTHENTICATED: flush the
\* buffer if it holds anything (up to the await of its first send), else send
\* the chunk; otherwise buffer the chunk.
PipeGet(p) ==
    /\ pipes[p].pc = "get"
    /\ ctl.audio_queue # <<>>
    /\ LET chunk == Head(ctl.audio_queue)
       IN  /\ ctl' = [ctl EXCEPT !.audio_queue = Tail(@)]
           /\ IF handshake.state = "AUTHENTICATED"
                THEN IF ~is_empty(buffer_manager)
                        THEN /\ buffer_manager' = flush_begin(buffer_manager)
                             /\ AfterSend(p,
                                    send_audio(Bundle, Head(buffer_manager.buffer), "flush"),
                                    "flush", chunk, Tail(buffer_manager.buffer))
                        ELSE /\ AfterSend(p, send_audio(Bundle, chunk, "direct"),
                                          "get", NoChunk, <<>>)
                             /\ UNCHANGED buffer_manager
                ELSE /\ buffer_manager' = add(buffer_manager, chunk)
                     /\ UNCHANGED <<transport, net, wire, handshake, pipes, history>>
    /\ UNCHANGED <<client, last, san>>

\* AudioBufferManager.flush resumes after a send: the next chunk of to_flush,
\* or, at its end, flush returns and the pipe task sends the chunk it popped
PipeFlush(p) ==
    /\ pipes[p].pc = "flush"
    /\ IF pipes[p].to_flush # <<>>
          THEN AfterSend(p, send_audio(Bundle, Head(pipes[p].to_flush), "flush"),
                         "flush", pipes[p].chunk, Tail(pipes[p].to_flush))
          ELSE AfterSend(p, send_audio(Bundle, pipes[p].chunk, "tail"),
                         "get", NoChunk, <<>>)
    /\ UNCHANGED <<client, buffer_manager, ctl, last, san>>

\* _process_audio_pipe: queue.get times out on an empty queue and recording
\* has stopped: break
PipeTimeout(p) ==
    /\ Ready
    /\ pipes[p].pc = "get"
    /\ ctl.audio_queue = <<>>
    /\ ~ctl.is_recording
    /\ pipes' = [pipes EXCEPT ![p] = IdlePipe]
    /\ UNCHANGED <<client, transport, net, buffer_manager, ctl, wire, handshake, last, history, san>>

\* RecordingController._on_handshake_state_changed, mutated: the buffer is
\* left as it is on FAILED
OnHandshakeStateChanged_NoClear ==
    /\ handshake.notified # <<>>
    /\ handshake' = [handshake EXCEPT !.notified = Tail(@)]
    /\ UNCHANGED <<client, transport, net, buffer_manager, ctl, pipes, wire, last,
                   history, san>>

\* RecordingController._on_handshake_state_changed, run as the task that
\* transition_to created for listener 1; other listeners only take the call
OnHandshakeStateChanged ==
    /\ handshake.notified # <<>>
    /\ handshake' = [handshake EXCEPT !.notified = Tail(@)]
    /\ buffer_manager' =
          IF Head(handshake.notified) = <<1, "FAILED">>
              THEN clear(buffer_manager) ELSE buffer_manager
    /\ UNCHANGED <<client, transport, net, ctl, pipes, wire, last, history, san>>

Next ==
    \/ WarmUp
    \/ ConnectOpened
    \/ ConnectFailed
    \/ DisconnectClosed
    \/ \E s \in 1..MaxSock : RecvAuthenticated(s)
    \/ \E s \in 1..MaxSock : RecvError(s)
    \/ \E s \in 1..MaxSock : RecvStatus(s)
    \/ \E s \in 1..MaxSock : ServerClose(s)
    \/ \E s \in 1..MaxSock : RecvClosed(s)
    \/ IdleTimeout
    \/ HandshakeTimeout
    \/ StartRecording
    \/ StopRecording
    \/ AudioCallback
    \/ \E p \in 1..NPipes : PipeGet(p)
    \/ \E p \in 1..NPipes : PipeFlush(p)
    \/ \E p \in 1..NPipes : PipeTimeout(p)
    \/ OnHandshakeStateChanged

Spec == Init /\ [][Next]_vars

(***************************************************************************)
(* The recording flow on a connection that opens, authenticates and stays  *)
(* open: no failure of the server, the network or a timer.  It follows a   *)
(* recording one chunk further than Spec does.                             *)
(***************************************************************************)
FlowChunks == MaxChunks + 1

FlowConnectOpened ==
    /\ Ready
    /\ net.opening > 0
    /\ Len(net.sock) < MaxSock
    /\ SetBundle(connect_opened(Bundle, TRUE))
    /\ UNCHANGED <<client, buffer_manager, ctl, pipes, last, san>>

FlowAudioCallback == audio_callback(FlowChunks)

NextFlow ==
    \/ WarmUp
    \/ FlowConnectOpened
    \/ \E s \in 1..MaxSock : RecvAuthenticated(s)
    \/ StartRecording
    \/ StopRecording
    \/ FlowAudioCallback
    \/ \E p \in 1..NPipes : PipeGet(p)
    \/ \E p \in 1..NPipes : PipeFlush(p)
    \/ \E p \in 1..NPipes : PipeTimeout(p)
    \/ OnHandshakeStateChanged

SpecFlow == Init /\ [][NextFlow]_vars

(***************************************************************************)
(* The handshake state machine on its own: a driver makes any call of its  *)
(* interface in any order; the listener calls it makes are taken off       *)
(* notified one at a time.                                                 *)
(***************************************************************************)
Called(op, arg) == last' = [op |-> op, arg |-> arg, before |-> handshake]

HSFrame == UNCHANGED <<client, transport, net, buffer_manager, ctl, pipes, wire,
                       history, san>>

HSTransitionTo(new_state) ==
    /\ Len(handshake.notified) < MaxPending
    /\ handshake' = transition_to(handshake, new_state)
    /\ Called("transition_to", new_state)
    /\ HSFrame

HSReset ==
    /\ Len(handshake.notified) < MaxPending
    /\ handshake' = reset(handshake)
    /\ Called("reset", "LOCKED")
    /\ HSFrame

HSTimeout ==
    /\ Len(handshake.notified) < MaxPending
    /\ handshake.timeout_task
    /\ handshake' = timeout_coro(handshake)
    /\ Called("timeout", "FAILED")
    /\ HSFrame

HSAddListener ==
    /\ Len(handshake.listeners) < MaxListeners
    /\ handshake' = add_listener(handshake, Len(handshake.listeners) + 1)
    /\ Called("add_listener", handshake.state)
    /\ HSFrame

NextHS ==
    \/ \E new_state \in HandshakeState : HSTransitionTo(new_state)
    \/ HSReset
    \/ HSTimeout
    \/ HSAddListener
    \/ OnHandshakeStateChanged

SpecHS == Init /\ [][NextHS]_vars

(***************************************************************************)
(* logic/sanitizer.py.  A text is a sequence of characters; a character is *)
(* named by a string: ESC (\x1b), BEL (\x07), NUL (\x00), LF (\n), DEL      *)
(* (\x7f), C1 (\x9b, a control that is not ASCII), and the printable ones   *)
(* by themselves.                                                          *)
(***************************************************************************)
Alphabet == {"ESC", "BEL", "NUL", "DEL", "C1", "[", "]", ";", "0", "m", "a", " ", "LF"}

\* [^\x20-\x7E\n\r\t] of WHITELIST_REGEX: the characters that stay
Whitelisted == {"[", "]", ";", "0", "m", "a", " ", "LF"}

\* what str.strip() removes, of the characters that are whitelisted
Whitespace == {" ", "LF"}

\* [0-9;] and [mGKH] of ANSI_ESCAPE_REGEX
CsiParam == {"0", "1", "2", "3", "4", "5", "6", "7", "8", "9", ";"}

CsiFinal == {"m", "G", "K", "H"}

\* the CSI branch of ANSI_ESCAPE_REGEX, mutated: the escape character is not
\* asked for, and "[", parameters and a final character are enough
CsiEnd_NoEsc(s, i) ==
    IF i <= Len(s) /\ s[i] = "["
        THEN LET j == SkipWhile(s, i + 1, CsiParam)
             IN  IF j <= Len(s) /\ s[j] \in CsiFinal THEN j ELSE 0
        ELSE 0

\* \x1b\[[0-9;]*[mGKH] matched at i: the index of its last character, else 0
CsiEnd(s, i) ==
    IF i + 1 <= Len(s) /\ s[i] = "ESC" /\ s[i + 1] = "["
        THEN LET j == SkipWhile(s, i + 2, CsiParam)
             IN  IF j <= Len(s) /\ s[j] \in CsiFinal THEN j ELSE 0
        ELSE 0

\* \x1b]0;.*?\x07 matched at i: the index of its BEL, else 0.  "." matches
\* any character but the newline, and ".*?" stops at the first BEL.
OscEnd(s, i) ==
    IF i + 3 <= Len(s) /\ s[i] = "ESC" /\ s[i + 1] = "]"
                       /\ s[i + 2] = "0" /\ s[i + 3] = ";"
        THEN LET j == SkipWhile(s, i + 4, Alphabet \ {"BEL", "LF"})
             IN  IF j <= Len(s) /\ s[j] = "BEL" THEN j ELSE 0
        ELSE 0

\* ANSI_ESCAPE_REGEX.sub('', text) from index i on: the leftmost match is
\* removed and the scan goes on behind it
RECURSIVE AnsiSub(_, _)
AnsiSub(s, i) ==
    IF i > Len(s) THEN <<>>
    ELSE IF CsiEnd(s, i) # 0 THEN AnsiSub(s, CsiEnd(s, i) + 1)
    ELSE IF OscEnd(s, i) # 0 THEN AnsiSub(s, OscEnd(s, i) + 1)
    ELSE <<s[i]>> \o AnsiSub(s, i + 1)

\* WHITELIST_REGEX.sub, mutated: the bell is let through
WhitelistSub_KeepBel(s) == SelectSeq(s, LAMBDA c : c \in Whitelisted \cup {"BEL"})

\* WHITELIST_REGEX.sub('', cleaned)
WhitelistSub(s) == SelectSeq(s, LAMBDA c : c \in Whitelisted)

\* str.strip()
RECURSIVE strip(_)
strip(s) ==
    IF s = <<>> THEN s
    ELSE IF Head(s) \in Whitespace THEN strip(Tail(s))
    ELSE IF s[Len(s)] \in Whitespace THEN strip(SubSeq(s, 1, Len(s) - 1))
    ELSE s

\* Sanitizer.sanitize, mutated: the whitespace is stripped before the
\* whitelist is applied
sanitize_StripFirst(text) ==
    IF text = <<>> THEN <<>> ELSE WhitelistSub(strip(AnsiSub(text, 1)))

\* Sanitizer.sanitize
sanitize(text) ==
    IF text = <<>> THEN <<>> ELSE strip(WhitelistSub(AnsiSub(text, 1)))

\* the texts the sanitizer is given: up to MaxTokens pieces, each a character
\* or the opening of an escape sequence
Tokens == {<<c>> : c \in Alphabet} \cup {<<"ESC", "[">>, <<"ESC", "]", "0", ";">>}

RECURSIVE Texts(_)
Texts(n) ==
    IF n = 0 THEN {<<>>}
    ELSE LET shorter == Texts(n - 1)
         IN  shorter \cup {t \o x : t \in Tokens, x \in shorter}

InitSan ==
    /\ client = "constructed"
    /\ transport = add_message_listener(NewTransport(DefaultUri), 1)
    /\ net = [sock |-> <<>>, recv |-> {}, opening |-> 0, closing |-> 0]
    /\ buffer_manager = [buffer |-> <<>>, is_buffering |-> TRUE]
    /\ ctl = [is_recording |-> FALSE, audio_queue |-> <<>>, ncap |-> 0, ntoggle |-> 0]
    /\ pipes = [p \in 1..NPipes |-> IdlePipe]
    /\ wire = <<>>
    /\ handshake = [state |-> "LOCKED", timeout_task |-> FALSE,
                    listeners |-> <<1>>, notified |-> <<>>]
    /\ last = [op |-> "init", arg |-> "LOCKED", before |-> handshake]
    /\ history = [banned |-> FALSE, failed |-> {}, answered |-> FALSE,
                  authed |-> {}, flushes |-> [p \in 1..NPipes |-> NoFlush]]
    /\ \E text \in Texts(MaxTokens) :
          san = [pc |-> "called", text |-> text, out |-> <<>>, again |-> <<>>,
                 clipboard |-> <<>>, pastes |-> 0]

SanFrame == UNCHANGED <<client, transport, net, buffer_manager, ctl, pipes, wire,
                        handshake, last, history>>

\* sanitize(text) returns
SanSanitize ==
    /\ san.pc = "called"
    /\ san' = [san EXCEPT !.pc = "returned", !.out = sanitize(san.text)]
    /\ SanFrame

\* sanitize is called on what it returned
SanAgain ==
    /\ san.pc = "returned"
    /\ san' = [san EXCEPT !.pc = "again", !.again = sanitize(san.out)]
    /\ SanFrame

\* RecordingController._paste_text, mutated: the text of the server is
\* copied as it came
paste_text_Raw(d, text) ==
    IF text = <<>> \/ strip(text) = <<>> THEN d
    ELSE LET safe_text == sanitize(text)
         IN  IF safe_text = <<>> THEN d
             ELSE [d EXCEPT !.clipboard = Append(@, text), !.pastes = @ + 1]

\* RecordingController._paste_text; d is [clipboard, pastes] (within san)
paste_text(d, text) ==
    IF text = <<>> \/ strip(text) = <<>> THEN d
    ELSE LET safe_text == sanitize(text)
         IN  IF safe_text = <<>> THEN d
             ELSE [d EXCEPT !.clipboard = Append(@, safe_text), !.pastes = @ + 1]

\* a message without the key "text"
NoText == <<"none">>

\* RecordingController._handle_server_message: a message with "text" goes to
\* _paste_text whatever its event; an error or status without it is logged
handle_server_message(d, msg) ==
    IF msg.text # NoText THEN paste_text(d, msg.text) ELSE d

\* the transport delivers a message to the controller's listener: the text
\* in san.text under some event, or a message without text
HandleServerMessage ==
    /\ san.pc = "called"
    /\ \E event \in {"transcript", "error", "status"}, with_text \in BOOLEAN :
          LET msg == [event |-> event, text |-> IF with_text THEN san.text ELSE NoText]
          IN  san' = [handle_server_message(san, msg) EXCEPT
                         !.pc = IF with_text THEN "handled" ELSE "logged"]
    /\ SanFrame

NextSan == SanSanitize \/ SanAgain

SpecSan == InitSan /\ [][NextSan]_vars

\* the controller's message listener on its own, given any of the texts
NextPaste == HandleServerMessage

SpecPaste == InitSan /\ [][NextPaste]_vars

(***************************************************************************)
(* The audio buffer on its own: a driver calls add, clear and flush in any *)
(* order.  flush is given a send callback that suspends at every call, so  *)
(* add and clear also run while a flush is between two sends, and that may *)
(* raise.  A pipe slot holds one flush call; the chunks the callback got   *)
(* are put on the wire, and history.flushes keeps the account of the call. *)
(***************************************************************************)
BufCalled(op, arg) == last' = [op |-> op, arg |-> arg, before |-> buffer_manager]

BufFrame == UNCHANGED <<client, transport, net, handshake, san>>

BufSent(chunk) ==
    wire' = Append(wire, [k |-> "bin", s |-> 0, c |-> chunk,
                          hs |-> handshake.state, path |-> "flush"])

BufAdd ==
    /\ ctl.ncap < MaxChunks
    /\ buffer_manager' = add(buffer_manager, <<1, ctl.ncap + 1>>)
    /\ ctl' = [ctl EXCEPT !.ncap = @ + 1]
    /\ BufCalled("add", <<1, ctl.ncap + 1>>)
    /\ UNCHANGED <<pipes, wire, history>>
    /\ BufFrame

BufClear ==
    /\ buffer_manager' = clear(buffer_manager)
    /\ BufCalled("clear", NoChunk)
    /\ history' = [history EXCEPT !.flushes =
                      [p \in 1..NPipes |->
                          IF @[p].ended = "running" THEN [@[p] EXCEPT !.cleared = TRUE]
                          ELSE @[p]]]
    /\ UNCHANGED <<ctl, pipes, wire>>
    /\ BufFrame

\* flush up to the await of its first send; on an empty buffer it returns
BufFlush(p) ==
    /\ pipes[p].pc = "done"
    /\ buffer_manager' = flush_begin(buffer_manager)
    /\ IF is_empty(buffer_manager)
          THEN /\ history' = [history EXCEPT !.flushes[p] = NoFlush]
               /\ UNCHANGED <<pipes, wire>>
          ELSE /\ pipes' = [pipes EXCEPT ![p] =
                              [pc |-> "flush", chunk |-> NoChunk,
                               to_flush |-> Tail(buffer_manager.buffer)]]
               /\ history' = [history EXCEPT !.flushes[p] =
                                 [given |-> buffer_manager.buffer,
                                  passed |-> <<Head(buffer_manager.buffer)>>,
                                  cleared |-> FALSE, ended |-> "running"]]
               /\ BufSent(Head(buffer_manager.buffer))
    /\ BufCalled("flush", NoChunk)
    /\ UNCHANGED ctl
    /\ BufFrame

\* the send returns: flush calls the next send, or returns at the end
BufFlushStep(p) ==
    /\ pipes[p].pc = "flush"
    /\ IF pipes[p].to_flush # <<>>
          THEN /\ pipes' = [pipes EXCEPT ![p].to_flush = Tail(@)]
               /\ history' = [history EXCEPT !.flushes[p].passed =
                                 Append(@, Head(pipes[p].to_flush))]
               /\ BufSent(Head(pipes[p].to_flush))
          ELSE /\ pipes' = [pipes EXCEPT ![p] = IdlePipe]
               /\ history' = [history EXCEPT !.flushes[p].ended = "returned"]
               /\ UNCHANGED wire
    /\ BufCalled("send", NoChunk)
    /\ UNCHANGED <<buffer_manager, ctl>>
    /\ BufFrame

\* the send raises: the exception leaves the loop of flush, and flush with it
BufFlushRaise(p) ==
    /\ pipes[p].pc = "flush"
    /\ pipes' = [pipes EXCEPT ![p] = IdlePipe]
    /\ history' = [history EXCEPT !.flushes[p].ended = "raised"]
    /\ BufCalled("raise", NoChunk)
    /\ UNCHANGED <<buffer_manager, ctl, wire>>
    /\ BufFrame

NextBuf ==
    \/ BufAdd
    \/ BufClear
    \/ \E p \in 1..NPipes : BufFlush(p)
    \/ \E p \in 1..NPipes : BufFlushStep(p)
    \/ \E p \in 1..NPipes : BufFlushRaise(p)

SpecBuf == Init /\ [][NextBuf]_vars

(***************************************************************************)
(* The receive loop's frame handler on its own: frames of any kind arrive  *)
(* in any order, while the state machine is driven through its interface   *)
(* (connect, disconnect and the timeout make these calls).  last records   *)
(* the frame handled: [op, arg, before, delivered, rearmed], delivered     *)
(* being the calls made to the message listeners and rearmed whether the   *)
(* idle timer was cancelled and armed again.                               *)
(***************************************************************************)
Inbound ==
    {<<"binary", 0>>, <<"hello", 0>>, <<"authenticated", 0>>, <<"status", 0>>}
        \cup {<<"error", code>> : code \in ErrorCodes}

RecvFrame(frame) ==
    /\ Len(handshake.notified) < MaxPending
    /\ LET B == handle_raw_message(Bundle, frame)
       IN  /\ handshake' = B.h
           /\ transport' = B.t
           /\ last' = [op |-> frame[1], arg |-> frame[2], before |-> handshake,
                       delivered |-> B.d, rearmed |-> B.armed]
    /\ UNCHANGED <<client, net, buffer_manager, ctl, pipes, wire, history, san>>

RecvAddMessageListener ==
    /\ Len(transport.message_listeners) < MaxListeners
    /\ transport' = add_message_listener(transport, Len(transport.message_listeners) + 1)
    /\ Called("add_message_listener", handshake.state)
    /\ UNCHANGED <<client, net, buffer_manager, ctl, pipes, wire, handshake, history, san>>

NextRecv ==
    \/ \E frame \in Inbound : RecvFrame(frame)
    \/ RecvAddMessageListener
    \/ HSTransitionTo("AUTHENTICATING")
    \/ HSReset
    \/ HSTimeout
    \/ OnHandshakeStateChanged

SpecRecv == Init /\ [][NextRecv]_vars

(***************************************************************************)
(* TransportService.__init__ on any configured URI: WHISPER_WS_URI is read *)
(* from the environment as it was typed.                                   *)
(***************************************************************************)
SchemeNames == {"ws", "WS", "wss", "http", "https", "HTTPS"}

HostNames == {"localhost", "LOCALHOST", "127.0.0.1", "0.0.0.0", "evil.com"}

\* scheme, "//", user, host, port, path, query and fragment, each there or not
Uris ==
    {sch \o sl \o ui \o h \o pt \o pa \o qu \o fr :
        sch \in {<<>>} \cup {<<s, ":">> : s \in SchemeNames},
        sl \in {<<>>, <<"//">>},
        ui \in {<<>>, <<"user", "@">>},
        h \in {<<>>} \cup {<<n>> : n \in HostNames},
        pt \in {<<>>, <<":", "9989">>},
        pa \in {<<>>, <<"/">>, <<"/", "x">>},
        qu \in {<<>>, <<"?", "q">>},
        fr \in {<<>>, <<"#", "f">>}}

InitUri ==
    /\ client = "configured"
    /\ \E uri \in Uris :
          transport = [ws |-> 0, receive_task |-> 0, idle_timer |-> FALSE,
                       uri |-> uri, hostname |-> <<>>, final_uri |-> <<>>,
                       message_listeners |-> <<>>]
    /\ net = [sock |-> <<>>, recv |-> {}, opening |-> 0, closing |-> 0]
    /\ buffer_manager = [buffer |-> <<>>, is_buffering |-> TRUE]
    /\ ctl = [is_recording |-> FALSE, audio_queue |-> <<>>, ncap |-> 0, ntoggle |-> 0]
    /\ pipes = [p \in 1..NPipes |-> IdlePipe]
    /\ wire = <<>>
    /\ handshake = [state |-> "LOCKED", timeout_task |-> FALSE,
                    listeners |-> <<1>>, notified |-> <<>>]
    /\ last = [op |-> "init", arg |-> "LOCKED", before |-> handshake]
    /\ history = [banned |-> FALSE, failed |-> {}, answered |-> FALSE,
                  authed |-> {}, flushes |-> [p \in 1..NPipes |-> NoFlush]]
    /\ san = [pc |-> "idle", text |-> <<>>, out |-> <<>>, again |-> <<>>,
              clipboard |-> <<>>, pastes |-> 0]

\* TransportService.__init__ with cfg.WS_URI = transport.uri
TransportInit ==
    /\ client = "configured"
    /\ client' = "constructed"
    /\ transport' = NewTransport(transport.uri)
    /\ UNCHANGED <<net, buffer_manager, ctl, pipes, wire, handshake, last, history, san>>

NextUri == TransportInit

SpecUri == InitUri /\ [][NextUri]_vars

(***************************************************************************)
(* Properties.                                                             *)
(***************************************************************************)
Bin(i) == wire[i].k = "bin"

Frames == 1..Len(wire)

AllPipesDone == \A p \in 1..NPipes : pipes[p].pc = "done"

\* C1: every binary frame on the wire was written while the handshake state
\* was AUTHENTICATED; send_audio writes a chunk in no other state.
C1_AudioOnlyWhenAuthenticated ==
    \A i \in Frames : Bin(i) => wire[i].hs = "AUTHENTICATED"

\* C1 witness: a flush was cut short: it wrote a buffered chunk, and the
\* handshake left AUTHENTICATED while the flush was suspended in the send
C1_Witness ==
    \E p \in 1..NPipes :
        /\ pipes[p].pc = "flush"
        /\ handshake.state # "AUTHENTICATED"
        /\ transport.ws # 0
        /\ \E i \in Frames : Bin(i) /\ wire[i].path = "flush"

\* C2: the binary frames on the wire are in capture order: of two chunks
\* that were both written, the one captured first was written first.
C2_CaptureOrder ==
    \A i, j \in Frames : (i < j /\ Bin(i) /\ Bin(j)) => wire[i].c[2] < wire[j].c[2]

\* one recording session on one connection that never failed or closed and
\* is authenticated, with everything at rest: recording stopped, the queue
\* empty, every pipe task ended, nothing left to run
CleanSessionAtRest ==
    /\ ctl.ntoggle = 2
    /\ ~ctl.is_recording
    /\ ctl.audio_queue = <<>>
    /\ AllPipesDone
    /\ handshake.notified = <<>>
    /\ net.sock = <<"authed">>
    /\ net.opening = 0 /\ net.closing = 0
    /\ transport.ws = 1
    /\ handshake.state = "AUTHENTICATED"
    /\ ctl.ncap < MAX_CHUNKS

\* C3: zero-loss recording: when a session that started before the
\* authentication has come to rest on an authenticated connection that never
\* failed or closed, every chunk captured in it has been written to the socket.
C3_ZeroLoss ==
    CleanSessionAtRest =>
        \A n \in 1..ctl.ncap : \E i \in Frames : Bin(i) /\ wire[i].c[2] = n

\* C4: the pre-auth buffer is drained before any chunk popped after the
\* authentication is sent: at the step that writes a chunk as it is popped
\* (the handshake being AUTHENTICATED), no buffered chunk of its session is
\* still waiting to be written by a flush.
C4_BufferDrainedFirst ==
    [][(/\ Len(wire') = Len(wire) + 1
        /\ wire'[Len(wire')].path = "direct")
       => \A p \in 1..NPipes : \A k \in 1..Len(pipes'[p].to_flush) :
              pipes'[p].to_flush[k][1] # wire'[Len(wire')].c[1]]_vars

\* C5: on every socket the hello is written before any binary frame.
C5_HelloBeforeAudio ==
    \A i \in Frames :
        Bin(i) => \E j \in 1..(i - 1) : wire[j].k = "hello" /\ wire[j].s = wire[i].s

\* C5 witness: audio was written on the second connection of the run
C5_Witness == \E i \in Frames : Bin(i) /\ wire[i].s = 2

\* C6: no binary frame of a session is written after the end-of-stream
\* frame of that session.
C6_EndOfStreamLast ==
    \A i, j \in Frames :
        (i < j /\ wire[i].k = "eos" /\ Bin(j)) => wire[j].c[1] # wire[i].c[1]

DeclaredEdges ==
    {<<"LOCKED", "AUTHENTICATING">>, <<"LOCKED", "FAILED">>, <<"LOCKED", "BANNED">>,
     <<"AUTHENTICATING", "AUTHENTICATED">>, <<"AUTHENTICATING", "FAILED">>,
     <<"AUTHENTICATING", "BANNED">>,
     <<"AUTHENTICATED", "LOCKED">>, <<"AUTHENTICATED", "BANNED">>,
     <<"FAILED", "LOCKED">>, <<"FAILED", "BANNED">>,
     <<"BANNED", "LOCKED">>}

\* C7: the state starts at LOCKED, every change of it follows a declared
\* edge, and a transition_to request along any other edge changes nothing.
C7_DeclaredEdgesOnly ==
    /\ last.op = "init" => handshake.state = "LOCKED"
    /\ handshake.state # last.before.state
          => <<last.before.state, handshake.state>> \in DeclaredEdges
    /\ (last.op = "transition_to" /\ <<last.before.state, last.arg>> \notin DeclaredEdges)
          => handshake.state = last.before.state

\* C7 witness: a request along an undeclared edge was made and refused
C7_Witness ==
    /\ last.op = "transition_to"
    /\ last.before.state = "FAILED" /\ last.arg = "AUTHENTICATED"
    /\ handshake.state = "FAILED"

\* C8: a change of state notifies every registered listener once with the
\* new state, in registration order; a call that does not change the state
\* notifies nobody.
C8_NotifyEachOnceInOrder ==
    [][IF handshake'.state # handshake.state
          THEN handshake'.notified =
                  handshake.notified \o
                  [i \in 1..Len(handshake.listeners) |->
                      <<handshake.listeners[i], handshake'.state>>]
          ELSE \/ handshake'.notified = handshake.notified
               \/ handshake'.notified = Tail(handshake.notified)]_vars

\* C8 witness: with two listeners registered, a change to AUTHENTICATED has
\* notified the first and then the second
C8_Witness ==
    /\ handshake.listeners = <<1, 2>>
    /\ handshake.state = "AUTHENTICATED"
    /\ handshake.notified = <<<<1, "AUTHENTICATED">>, <<2, "AUTHENTICATED">>>>

\* C9: after reset() the state is LOCKED and no timeout is armed, whatever
\* the state before.
C9_ResetLocks ==
    last.op = "reset" => (handshake.state = "LOCKED" /\ ~handshake.timeout_task)

\* C10: after transition_to(AUTHENTICATING) leaves the machine in
\* AUTHENTICATING a timeout is armed; a timeout that fires in AUTHENTICATING
\* makes the state FAILED; a timeout is pending in no other state.
C10_TimeoutArmed ==
    /\ (last.op = "transition_to" /\ last.arg = "AUTHENTICATING"
            /\ handshake.state = "AUTHENTICATING")
          => handshake.timeout_task
    /\ (last.op = "timeout" /\ last.before.state = "AUTHENTICATING")
          => handshake.state = "FAILED"
    /\ handshake.timeout_task => handshake.state = "AUTHENTICATING"

\* C11: after the receive loop has processed an error frame with code 401 or
\* 403 the handshake state is FAILED, whatever the state was before.
C11_ErrorFails ==
    [][\A s \in 1..MaxSock : \A code \in {401, 403} :
          RecvErrorCode(s, code) => handshake'.state = "FAILED"]_vars

\* C12: when the receive loop finds the socket closed by the server with
\* code 1008, the handshake state becomes BANNED.
C12_ClosePolicyBans ==
    [][\A s \in 1..MaxSock : \A mode \in {"abort", "complete"} :
          RecvClosedCode(s, 1008, mode) => handshake'.state = "BANNED"]_vars

\* C13: once the handshake state has been BANNED it is never AUTHENTICATED
\* again, and no binary frame is written afterwards.
C13_BanIsPermanent ==
    [][history.banned =>
          /\ handshake'.state # "AUTHENTICATED"
          /\ (Len(wire') > Len(wire) => wire'[Len(wire')].k # "bin")]_vars

\* the idle timer fires on a connection that is open
IdleFiresOnOpen ==
    /\ transport.ws # 0
    /\ Writable(Bundle, transport.ws)
    /\ IdleTimeout

\* the transport is, or is about to be, without a socket handle: a
\* disconnect that waits in ws.close clears the handle when it goes on
HandleGoes == transport.ws = 0 \/ net.closing > 0

\* C14: the idle timer firing on an open connection leaves the transport
\* disconnected: the socket handle goes and the handshake is LOCKED, so the
\* next connect() does not return early.
C14_IdleDisconnects ==
    [][IdleFiresOnOpen => (HandleGoes' /\ handshake'.state = "LOCKED")]_vars

\* a step in which TransportService.disconnect is invoked: by the idle-timer
\* task, by the receive task, or by the error path of connect
DisconnectInvoked ==
    \/ transport.ws # 0 /\ IdleTimeout
    \/ \E s \in 1..MaxSock : \E code \in CloseCodes \ {1000} :
          \E mode \in {"abort", "complete"} : RecvClosedCode(s, code, mode)
    \/ ConnectFailed
    \/ ConnectOpenedWith(FALSE)

Disconnected ==
    /\ transport.ws = 0 /\ transport.receive_task = 0 /\ ~transport.idle_timer
    /\ handshake.state = "LOCKED"

\* C15: an invocation of disconnect leaves no socket handle, no idle-timer
\* handle and no receive-task handle, whichever task made it; on a
\* disconnected transport (as when connect fails before it has a socket) it
\* changes nothing.
C15_DisconnectClears ==
    [][DisconnectInvoked =>
          /\ HandleGoes'
          /\ ~transport'.idle_timer
          /\ transport'.receive_task = 0
          /\ (ConnectFailed /\ Disconnected)
                => (transport' = transport /\ handshake' = handshake)]_vars

\* C16: the buffer never holds more than MAX_CHUNKS chunks, whatever the
\* sequence of add, flush and clear calls.
C16_CountWithinCap == count(buffer_manager) <= MAX_CHUNKS

\* C16 witness: add was called on a full buffer and dropped its oldest chunk
C16_Witness ==
    /\ last.op = "add"
    /\ Len(last.before.buffer) = MAX_CHUNKS
    /\ count(buffer_manager) = MAX_CHUNKS
    /\ Head(buffer_manager.buffer) # Head(last.before.buffer)

\* C17: after clear() the buffer is empty and in buffering mode, whatever it
\* held and whatever its mode before, a suspended flush included.
C17_ClearResets ==
    last.op = "clear" =>
        (is_empty(buffer_manager) /\ count(buffer_manager) = 0
            /\ buffer_manager.is_buffering)

\* C17 witness: clear ran on a buffer that held a chunk while a flush was
\* suspended in a send with chunks still to send
C17_Witness ==
    /\ last.op = "clear"
    /\ last.before.buffer # <<>>
    /\ \E p \in 1..NPipes : pipes[p].pc = "flush" /\ pipes[p].to_flush # <<>>

Chars(s) == {s[i] : i \in 1..Len(s)}

\* C18: sanitize is idempotent: called on its own result it returns it
\* unchanged.
C18_Idempotent == san.pc = "again" => san.again = san.out

\* C18 witness: a text with an escape in it that sanitize changed and did
\* not clean to nothing was sanitized twice
C18_Witness ==
    /\ san.pc = "again"
    /\ "ESC" \in Chars(san.text)
    /\ san.out # san.text
    /\ san.out # <<>>

\* code points 0x20..0x7E, newline, carriage return and tab, of the alphabet
Harmless == {"[", "]", ";", "0", "m", "a", " ", "LF"}

Visible == Harmless \ {" ", "LF"}

\* C19: what sanitize returns holds only printable ASCII, newline, carriage
\* return and tab, neither starts nor ends with whitespace, and is empty
\* when the input is empty or holds nothing that can be seen.
C19_OutputClean ==
    san.pc # "called" =>
        /\ Chars(san.out) \subseteq Harmless
        /\ san.out # <<>> =>
              (san.out[1] \in Visible /\ san.out[Len(san.out)] \in Visible)
        /\ san.text = <<>> => san.out = <<>>
        /\ Chars(san.text) \cap Visible = {} => san.out = <<>>

\* C19 witness: a text that starts with whitespace and holds a NUL and a
\* bell was cleaned to something
C19_Witness ==
    /\ san.pc = "returned"
    /\ san.text # <<>>
    /\ san.text[1] \in {" ", "LF"}
    /\ {"NUL", "BEL"} \subseteq Chars(san.text)
    /\ san.out # <<>>

\* a complete CSI sequence: ESC [, parameters, a final character
IsCsi(q) ==
    /\ Len(q) >= 3
    /\ q[1] = "ESC" /\ q[2] = "["
    /\ q[Len(q)] \in CsiFinal
    /\ \A k \in 3..(Len(q) - 1) : q[k] \in CsiParam

\* a complete OSC title sequence: ESC ] 0 ;, the title, the first BEL
IsOsc(q) ==
    /\ Len(q) >= 5
    /\ q[1] = "ESC" /\ q[2] = "]" /\ q[3] = "0" /\ q[4] = ";"
    /\ q[Len(q)] = "BEL"
    /\ \A k \in 5..(Len(q) - 1) : q[k] # "BEL"

\* text without an escape or a bell
Plain(x) == Chars(x) \cap {"ESC", "BEL"} = {}

\* a plain text as it is to come out: harmless characters only, trimmed
Cleaned(x) == strip(SelectSeq(x, LAMBDA c : c \in Harmless))

\* C20: a complete CSI or OSC title sequence between two plain texts is
\* removed with its parameters or title, and the two texts come out joined.
C20_SequencesRemoved ==
    san.pc = "returned" =>
        \A i \in 1..Len(san.text) : \A j \in i..Len(san.text) :
            LET before == SubSeq(san.text, 1, i - 1)
                q      == SubSeq(san.text, i, j)
                after  == SubSeq(san.text, j + 1, Len(san.text))
            IN  ((IsCsi(q) \/ IsOsc(q)) /\ Plain(before) /\ Plain(after))
                    => san.out = Cleaned(before \o after)

\* code points 0x20..0x7E, of the alphabet
Printable == {"[", "]", ";", "0", "m", "a", " "}

\* a non-empty text of printable ASCII that neither starts nor ends with
\* whitespace
CleanText(x) ==
    /\ x # <<>>
    /\ Chars(x) \subseteq Printable
    /\ x[1] # " " /\ x[Len(x)] # " "

\* C21: sanitize returns a clean text (non-empty, printable ASCII only, no
\* whitespace at either end) as it is, punctuation included.
C21_IdentityOnClean ==
    (san.pc = "returned" /\ CleanText(san.text)) => san.out = san.text

\* C21 witness: a clean text that holds what a colour sequence is made of
\* but the escape ("[", a parameter, ";", "m") came back as it was
C21_Witness ==
    /\ san.pc = "returned"
    /\ CleanText(san.text)
    /\ {"[", ";", "m"} \subseteq Chars(san.text)
    /\ san.out = san.text

\* C22: a message with text that the controller handled wrote the clipboard
\* once, with sanitize(text), and pasted once, when sanitize(text) is not
\* empty; it wrote and pasted nothing when it is empty.
C22_PasteSanitized ==
    san.pc = "handled" =>
        IF sanitize(san.text) # <<>>
            THEN san.clipboard = <<sanitize(san.text)>> /\ san.pastes = 1
            ELSE san.clipboard = <<>> /\ san.pastes = 0

\* C22 witness: a text with an escape sequence in it was handled, and what
\* went to the clipboard is not the text as the server sent it
C22_Witness ==
    /\ san.pc = "handled"
    /\ "ESC" \in Chars(san.text)
    /\ san.pastes = 1
    /\ san.clipboard # <<san.text>>

\* C23: for a configured URI whose scheme is ws, wss, http or https in any
\* letter case, the URI that _prepare_uri returns has scheme ws or wss, and ws
\* only when the host it names is localhost, 127.0.0.1 or 0.0.0.0 (or it
\* names none); an empty path has become /ws and the query is the same.
C23_NoPlainWsToRemote ==
    LET configured == urlparse(transport.uri)
        returned   == urlparse(transport.final_uri)
    IN  (/\ client = "constructed"
         /\ configured.scheme \in {<<"ws">>, <<"wss">>, <<"http">>, <<"https">>})
        => /\ returned.scheme \in {<<"ws">>, <<"wss">>}
           /\ returned.scheme = <<"ws">>
                 => hostname_of(returned) \in LocalHosts \cup {<<>>}
           /\ configured.path = <<>> => returned.path = <<"/", "ws">>
           /\ returned.query = configured.query

\* the sockets that are open, at the client's end and at the server's
OpenSockets == {s \in 1..Len(net.sock) : Writable(Bundle, s)}

\* C24: at any time at most one socket is open and at most one receive task
\* is alive: a connect() made while connected, or while another connect() is
\* in flight, opens no second socket and spawns no second receive task.
C24_SingleConnection ==
    /\ Cardinality(OpenSockets) <= 1
    /\ Cardinality(net.recv) <= 1

\* the server has answered nothing and closed nothing so far
ServerSilent == ~history.answered

\* C25: when the handshake timeout has made the state FAILED (the server
\* never answered the hello) and the listeners have run, the transport is
\* disconnected: the socket handle is gone, or goes with a close under way.
C25_TimeoutDisconnects ==
    (handshake.state = "FAILED" /\ NoListenerWaiting /\ ServerSilent) => HandleGoes

\* the controller's listener runs for a change to FAILED
ListenerRunsOnFailed ==
    /\ handshake.notified # <<>>
    /\ Head(handshake.notified) = <<1, "FAILED">>
    /\ OnHandshakeStateChanged

\* C26: the listener that runs for a change to FAILED leaves the buffer empty
\* and in buffering mode; no chunk that was in the buffer when the state
\* became FAILED is ever written to a socket; and while the server has
\* answered nothing, no binary frame is written at all.
C26_FailureClearsBuffer ==
    /\ [][ListenerRunsOnFailed =>
            buffer_manager' = [buffer |-> <<>>, is_buffering |-> TRUE]]_vars
    /\ [](\A i \in Frames : Bin(i) => wire[i].c \notin history.failed)
    /\ [](ServerSilent => \A i \in Frames : ~Bin(i))

\* C26 witness: chunks were in the buffer when the state became FAILED, the
\* listener has cleared the buffer, and audio has been written since, on a
\* later connection
C26_Witness ==
    /\ history.failed # {}
    /\ \E i \in Frames : Bin(i) /\ wire[i].s = 2

\* C27: after the receive loop has handled an error frame with code 1008 the
\* handshake state is BANNED, whatever it was before, and every message
\* listener has been called once with the error message, in order.
C27_Error1008Bans ==
    (last.op = "error" /\ last.arg = 1008) =>
        /\ handshake.state = "BANNED"
        /\ last.delivered = [i \in 1..Len(transport.message_listeners) |->
                                <<transport.message_listeners[i], <<"error", 1008>>>>]

\* C27 witness: the frame came in AUTHENTICATED, from where FAILED is
\* refused, with two message listeners registered
C27_Witness ==
    /\ last.op = "error" /\ last.arg = 1008
    /\ last.before.state = "AUTHENTICATED"
    /\ Len(last.delivered) = 2
    /\ handshake.state = "BANNED"

\* the receive task of the current socket finds it closed by the server
ServerClosedSeen(s, code, mode) ==
    /\ transport.ws = s
    /\ net.sock[s] = "closed_s"
    /\ RecvClosedCode(s, code, mode)

\* C28: when the receive loop finds its socket closed by the server, with a
\* clean close or any other, the transport ends disconnected: the handshake
\* is reset to LOCKED and the socket handle goes.
C28_ServerCloseDisconnects ==
    [][\A s \in 1..MaxSock : \A code \in CloseCodes : \A mode \in {"abort", "complete"} :
          ServerClosedSeen(s, code, mode)
              => (HandleGoes' /\ handshake'.state = "LOCKED")]_vars

\* C29: the idle timer is re-armed by outbound sends only: handling a frame
\* that came in from the server does not cancel and re-arm it.
C29_InboundLeavesIdleTimer ==
    (\E frame \in Inbound : last.op = frame[1]) => ~last.rearmed

\* C30: a connect() that gets no API key writes no hello and does not enter
\* AUTHENTICATING, and leaves the transport disconnected: the socket it
\* opened is closed, its receive task is cancelled, the socket handle goes
\* and the handshake state is LOCKED.
C30_NoKeyDisconnects ==
    [][ConnectOpenedWith(FALSE) =>
          LET s == Len(net'.sock)
          IN  /\ wire' = wire
              /\ handshake'.state = "LOCKED"
              /\ net'.sock[s] = "closed_c"
              /\ s \notin net'.recv
              /\ transport'.receive_task = 0
              /\ HandleGoes']_vars

\* C31: add(chunk) in buffering mode on a buffer that holds MAX_CHUNKS chunks
\* removes the oldest chunk and appends the new one at the end; below the cap
\* it only appends; so the buffer holds the chunks added last, in the order
\* they were added, with none missing in between.
C31_FifoEviction ==
    /\ (last.op = "add" /\ last.before.is_buffering)
          => buffer_manager.buffer =
                IF Len(last.before.buffer) >= MAX_CHUNKS
                    THEN Append(Tail(last.before.buffer), last.arg)
                    ELSE Append(last.before.buffer, last.arg)
    /\ \A k \in 1..(count(buffer_manager) - 1) :
          buffer_manager.buffer[k + 1][2] = buffer_manager.buffer[k][2] + 1

\* C31 witness: the third chunk was added to a buffer that held the first
\* and the second, and the buffer now holds the second and the third
C31_Witness ==
    /\ last.op = "add"
    /\ last.before.is_buffering
    /\ last.before.buffer = <<<<1, 1>>, <<1, 2>>>>
    /\ buffer_manager.buffer = <<<<1, 2>>, <<1, 3>>>>

\* a flush call that has not ended and that no clear() has crossed
FlushUndisturbed(p) ==
    history.flushes[p].ended = "running" /\ ~history.flushes[p].cleared

C33_QueueBounded == Len(ctl.audio_queue) <= MAX_CHUNKS

\* the pipe task in slot p ends in this step
PipeExits(p) == pipes[p].pc # "done" /\ pipes'[p].pc = "done"

\* C34: once the one session of the run is stopped and its pipe task has
\* ended, no chunk is left in the queue; and a pipe task ends while recording
\* is on only on an exception (a send on a socket that is closed).
C34_PipeDrainsThenExits ==
    /\ []((ctl.ntoggle = 2 /\ ~ctl.is_recording /\ AllPipesDone)
            => ctl.audio_queue = <<>>)
    /\ [][\A p \in 1..NPipes :
            (PipeExits(p) /\ ctl.is_recording)
                => /\ ~PipeTimeout(p)
                   /\ transport.ws # 0
                   /\ ~Writable(Bundle, transport.ws)]_vars

\* the pipe tasks that have not ended
LivePipes == {p \in 1..NPipes : pipes[p].pc # "done"}

\* C35: at most one pipe task is alive at any time: the pipe task of a
\* stopped session has ended before the pipe task of the next session runs.
C35_SinglePipeTask == Cardinality(LivePipes) <= 1

\* C36: in every state where the handshake is AUTHENTICATING a handshake
\* timeout is armed, after a disconnect and after the reconnect too.
C36_AuthenticatingHasTimeout ==
    handshake.state = "AUTHENTICATING" => handshake.timeout_task

\* C37: a binary frame is written to a socket only after an "authenticated"
\* event has been received on that same socket.
C37_AudioOnAuthenticatedSocket ==
    [][(Len(wire') > Len(wire) /\ wire'[Len(wire')].k = "bin")
          => wire'[Len(wire')].s \in history.authed]_vars

\* the chunks a sequence holds
ChunksOf(q) == {q[k] : k \in 1..Len(q)}

\* the chunks that are still to be consumed: in the queue, in the buffer, or
\* held by a pipe task (the rest of a flush, the chunk it popped)
Pending ==
    ChunksOf(ctl.audio_queue) \cup ChunksOf(buffer_manager.buffer)
        \cup UNION {ChunksOf(pipes[p].to_flush) \cup {pipes[p].chunk} : p \in 1..NPipes}

\* C38: no chunk is written to a socket twice, and a chunk that was written
\* is neither in the buffer nor with a flush or a pipe task any more.
C38_ChunkSentOnce ==
    /\ \A i, j \in Frames : (i < j /\ Bin(i) /\ Bin(j)) => wire[i].c # wire[j].c
    /\ \A i \in Frames : Bin(i) => wire[i].c \notin Pending

\* C38 witness: a buffered chunk was written by a flush, the chunk popped at
\* the flush after it, and a third chunk as it was popped
C38_Witness ==
    /\ \E i \in Frames : Bin(i) /\ wire[i].path = "flush"
    /\ \E i \in Frames : Bin(i) /\ wire[i].path = "tail"
    /\ \E i \in Frames : Bin(i) /\ wire[i].path = "direct"

\* the chunks the pipe tasks have taken and not lost: written to a socket, in
\* the buffer, or still held by a pipe task
Kept ==
    {wire[i].c : i \in {j \in Frames : Bin(j)}}
        \cup ChunksOf(buffer_manager.buffer)
        \cup UNION {ChunksOf(pipes[p].to_flush) \cup ({pipes[p].chunk} \ {NoChunk}) :
                       p \in 1..NPipes}

\* what add drops at the cap when the pipe task buffers the chunk it popped
Evicted ==
    IF /\ handshake.state # "AUTHENTICATED"
       /\ buffer_manager.is_buffering
       /\ Len(buffer_manager.buffer) >= MAX_CHUNKS
        THEN {Head(buffer_manager.buffer)} ELSE {}

\* C39: a step of a pipe task loses no chunk: the chunk it pops, and every
\* chunk that was in the buffer or with a pipe task, is afterwards written to
\* a socket, in the buffer or still with the pipe task; only add at the cap
\* drops one, the oldest of the buffer.
C39_NoSilentDiscard ==
    [][\A p \in 1..NPipes :
          /\ PipeGet(p) => (Kept \cup {Head(ctl.audio_queue)}) \ Evicted \subseteq Kept'
          /\ PipeFlush(p) => Kept \subseteq Kept']_vars
====
